---- MODULE Spec2Model ----
(***************************************************************************)
(* libera-core: the Ether Dream streaming core.                            *)
(*                                                                         *)
(* Threads of the program and how they appear here:                        *)
(*   - the control thread (application): connect / start / stop / close    *)
(*     on one EtherDreamDevice                               (variable ctl) *)
(*   - a second application thread that only calls start()   (variable aux) *)
(*   - the device worker thread running EtherDreamDevice::run               *)
(*                                                    (variables wpc, wio)  *)
(*   - the NetService thread driving io_context::run(): it runs the         *)
(*     completion handlers of with_deadline, one at a time                  *)
(*   - the environment: the network / DAC completing operations, and time   *)
(*     letting timers expire                                                *)
(***************************************************************************)
EXTENDS Integers, Sequences, FiniteSets, TLC

\* ------------------------------------------------------------------ bounds
\* How many with_deadline calls that already returned may still have a
\* handler waiting on the executor when the next call is started.
MaxStale == 1
\* The most points the application lets the outbound buffer hold.
MaxBuffered == 40
\* The most points of a frame built by the encoders.
MaxFramePoints == 3
\* The most acks of the DAC that may lie unread on the connection.
MaxUnread == 2

\* ------------------------------------------------------- program constants
ETHERDREAM_TARGET_POINT_RATE == 30000
ETHERDREAM_BUFFER_CAPACITY == 1799
ETHERDREAM_MIN_PACKET_POINTS == 150
DefaultLatencyMillis == 50
IdlePollLimit == 10
UnderflowFlag == 4
UInt16Max == 65535
RATE_CHANGE_BIT == 32768
COORD_SCALE == 32767
CHANNEL_SCALE == 65535
ETHERDREAM_COORD_SCALE == 32767
ETHERDREAM_CHANNEL_SCALE == 65535
DataOpcode == 100

\* LightEngineState / PlaybackState enumerators (EtherDreamResponse.hpp)
Ready == 0
Estop == 3
Idle == 0
Prepared == 1
Playing == 2
Paused == 3

\* ------------------------------------------------------------ DAC statuses
\* The fields of EtherDreamStatus that the worker reads.
Status(les, ps, pf, bf, pr) ==
    [lightEngineState |-> les, playbackState |-> ps, playbackFlags |-> pf,
     bufferFullness |-> bf, pointRate |-> pr]

\* EtherDreamStatus{} : every field zero.
DefaultStatus == Status(Ready, Idle, 0, 0, 0)

\* The statuses the modelled DAC may report in an ack.
Statuses ==
    { Status(Ready, Idle, 0, 0, 0),
      Status(Ready, Prepared, 0, 200, 0),
      Status(Ready, Playing, 0, 200, 30000),
      Status(Ready, Playing, 0, 1799, 30000),
      Status(Ready, Playing, 0, 1799, 1000),
      Status(Estop, Playing, 0, 200, 30000),
      Status(Estop, Idle, 0, 0, 0),
      Status(Ready, Playing, UnderflowFlag, 0, 30000),
      Status(Ready, Paused, 0, 1760, 30000) }

\* The statuses it may report in an ack that refuses the command or echoes
\* another one: the FIFO is full, or it has run empty.
RefusalStatuses ==
    { Status(Ready, Playing, 0, 1799, 30000),
      Status(Ready, Playing, UnderflowFlag, 0, 30000) }

\* (playbackFlags & 0x04) != 0
Underflow(status) == (status.playbackFlags \div UnderflowFlag) % 2 = 1

IsEstop(status) == status.lightEngineState = Estop

Max(a, b) == IF a >= b THEN a ELSE b
Min(a, b) == IF a <= b THEN a ELSE b

\* ------------------------------------------------------------------- state
VARIABLES
    running,            \* LaserDeviceBase::running (atomic bool)
    workerJoinable,     \* LaserDeviceBase::worker.joinable()
    joins,              \* how often the current worker thread has been joined
    extraWorker,        \* a second worker thread was launched beside a live one
    crashed,            \* std::terminate was called: the process is gone
    wpc,                \* the worker thread's position in EtherDreamDevice::run
    wio,                \* "-" | "w" (blocked in write_all) | "r" (in read_exact)
    failureEncountered, \* run()'s local flag
    idlePollCounter,    \* run()'s local counter
    sentFrame,          \* run()'s local sentFrameThisIteration
    lastKnownStatus,    \* EtherDreamDevice::lastKnownStatus
    rateChangePending,  \* EtherDreamDevice::rateChangePending
    callbackSet,        \* LaserDeviceBase::requestPointsCallback is not empty
    sock,               \* TcpClient::socket_: "closed" | "open" | "connected"
    rememberedAddress,  \* EtherDreamDevice::rememberedAddress.has_value()
    cur,                \* the with_deadline call some thread is blocked in
    stale,              \* returned with_deadline calls with a handler still queued
    ctl,                \* the control thread: [pc, last]
    aux,                \* the second application thread, inside start() or idle
    wres,               \* the outcome of the worker's most recent command
    fill,               \* run()'s PointFillRequest and what the callback made
    pointsToSend,       \* the number of points in the outbound buffer
    latencyMillis,      \* LaserDeviceBase::latencyMillis
    lastLatency,        \* the argument of the latest setLatency call
    lastCall,           \* the latest requestPoints call of the application
    frame,              \* the latest data frame built by one of the encoders
    encoded,            \* the latest value encoded, and the word it became
    ackResponse,        \* an EtherDreamResponse object: response, command, status
    lastDecode,         \* the latest EtherDreamResponse::decode call on it
    decoded,            \* the latest decode of status bytes with the schema
    roundTrip,          \* the latest encode of a decoded status, decoded again
    unread,             \* acks the DAC sent on this connection that no read took
    refill              \* the latest refill and sleep decision on a sample status

vars == <<running, workerJoinable, joins, extraWorker, crashed, wpc, wio,
          failureEncountered, idlePollCounter, sentFrame, lastKnownStatus,
          rateChangePending, callbackSet, sock, unread,
          rememberedAddress, cur, stale, ctl, aux, wres, fill, pointsToSend,
          latencyMillis,
          lastLatency, lastCall, refill, frame, encoded, ackResponse,
          lastDecode, decoded, roundTrip>>

threadVars == <<running, workerJoinable, joins, extraWorker, crashed>>
workerVars == <<wpc, wio, failureEncountered, idlePollCounter, sentFrame,
                lastKnownStatus, rateChangePending, wres, fill, pointsToSend>>
netVars == <<sock, unread, cur, stale>>
appVars == <<ctl, aux, callbackSet, rememberedAddress>>
\* What the application's calls on the base class leave behind.
codecVars == <<frame, encoded>>
\* What the decoders applied to sample inputs leave behind.
decodeVars == <<ackResponse, lastDecode, decoded, roundTrip>>
baseVars == <<latencyMillis, lastLatency, lastCall, refill, frame, encoded,
              ackResponse, lastDecode, decoded, roundTrip>>

\* The acks the peer has sent, or owes, on the connection and no read has
\* taken, once an operation has completed with `code`: the DAC sends one on
\* connection and one for every command it receives; a read of 22 bytes
\* takes the oldest; when the transport fails nothing more can be read.
Unread(kind, code, n) ==
    IF code # "ok" THEN 0
    ELSE CASE kind = "connect" -> 1
           [] kind = "write" -> n + 1
           [] kind = "read" -> IF n > 0 THEN n - 1 ELSE 0
           [] OTHER -> n

\* TcpClient::is_open()
sockOpen == sock # "closed"

\* ------------------------------------------------- with_deadline (Deadline.hpp)
\* One call of with_deadline: its shared State (done, ec), its asynchronous
\* operation and its steady_timer.
\*   kind, cmd, points, rateBit : what the operation is (connect, read of the
\*           ack for cmd, write of the frame cmd with its point count and the
\*           control bit of its first point)
\*   op    : "pending", the error code its queued completion handler will be
\*           given ("bad_descriptor", "operation_aborted"), or "handled"
\*   timer : "armed", "ok" (expired: its wait handler is queued),
\*           "cancelling" (the wait handler has recorded the timeout and has
\*           not yet called cancel()), or "handled"
\*   first, opEc : which handler ran first, and the code the operation's
\*           handler was given when it was the first
NoCall ==
    [kind |-> "none", cmd |-> "-", points |-> 0, rateBit |-> FALSE,
     done |-> FALSE, ec |-> "would_block", op |-> "handled",
     timer |-> "handled", first |-> "none", opEc |-> "none",
     immediate |-> FALSE]

\* State{} after start_async(op_handler) and timer->async_wait(...).  An
\* operation started on a closed socket completes at once with bad_descriptor.
StartCall(kind, cmd, points, rateBit, open) ==
    [kind |-> kind, cmd |-> cmd, points |-> points, rateBit |-> rateBit,
     done |-> FALSE, ec |-> "would_block",
     op |-> IF open THEN "pending" ELSE "bad_descriptor", timer |-> "armed",
     first |-> "none", opEc |-> "none", immediate |-> FALSE]

\* TcpClient::sanitize: a negative timeout counts as zero.
sanitize(timeout) == IF timeout < 0 THEN 0 ELSE timeout

\* timer->expires_after(timeout): a deadline that is not in the future has
\* passed when the wait starts, and the wait handler is queued at once.
ArmTimer(timeout) == IF timeout <= 0 THEN "ok" ELSE "armed"

\* A call of with_deadline with the timeout the caller asked for.
StartCallWithin(timeout, kind, open) ==
    [StartCall(kind, "-", 0, FALSE, open)
     EXCEPT !.timer = ArmTimer(timeout), !.immediate = (timeout <= 0)]

OpQueued(c) == c.op \notin {"pending", "handled"}
TimerQueued(c) == c.timer = "ok"
Finished(c) == c.op = "handled" /\ c.timer = "handled"

\* timer->cancel(): a wait that has not expired completes with
\* operation_aborted, and its handler returns at once on that code; a wait
\* that has expired is not affected.
CancelTimer(t) == IF t = "armed" THEN "handled" ELSE t

\* op_handler without `if (st->done) return;`.
OpHandlerNoGuard(c, code) ==
    [c EXCEPT !.ec = code, !.done = TRUE, !.op = "handled",
              !.timer = CancelTimer(c.timer),
              !.first = IF c.first = "none" THEN "op" ELSE c.first,
              !.opEc = IF c.first = "none" THEN code ELSE c.opEc]

\* op_handler(op_ec): the completion handler of the user's operation.
OpHandler(c, code) ==
    IF c.done
    THEN [c EXCEPT !.op = "handled"]
    ELSE [c EXCEPT !.ec = code, !.done = TRUE, !.op = "handled",
                   !.timer = CancelTimer(c.timer),
                   !.first = IF c.first = "none" THEN "op" ELSE c.first,
                   !.opEc = IF c.first = "none" THEN code ELSE c.opEc]

\* The wait handler without its call of cancel().
TimerHandlerNoCancel(c) ==
    IF c.done
    THEN [c EXCEPT !.timer = "handled"]
    ELSE [c EXCEPT !.ec = "timed_out", !.done = TRUE, !.timer = "handled",
                   !.first = IF c.first = "none" THEN "timer" ELSE c.first]

\* The timer's wait handler up to the end of its critical section.
TimerHandler(c) ==
    IF c.done
    THEN [c EXCEPT !.timer = "handled"]
    ELSE [c EXCEPT !.ec = "timed_out", !.done = TRUE, !.timer = "cancelling",
                   !.first = IF c.first = "none" THEN "timer" ELSE c.first]

\* st->cv.wait(lk, [&]{ return st->done; }): the caller may go on.
WaitDone(c) == c.done

\* socket_.cancel(): an operation outstanding on the socket completes with
\* operation_aborted.
CancelOp(c) == IF c.op = "pending" THEN [c EXCEPT !.op = "operation_aborted"] ELSE c

MapSeq(s, F(_)) == [i \in 1..Len(s) |-> F(s[i])]

\* Of a call that has returned, the handlers still hold the State; nothing
\* reads its ec again, and what the operation was matters only while it is
\* in flight.
Forget(c) ==
    [c EXCEPT !.kind = IF c.op = "pending" THEN c.kind ELSE "-",
              !.cmd = "-", !.points = 0, !.rateBit = FALSE,
              !.ec = "-", !.first = "none", !.opEc = "none",
              !.immediate = FALSE]

\* Calls whose two handlers have both run are gone.
Prune(s) == MapSeq(SelectSeq(s, LAMBDA c : ~Finished(c)), Forget)

\* The caller leaves with_deadline: the call's State lives on in its handlers.
Retire(c, s) == Prune(Append(s, c))

\* The calls known to the executor: 0 is cur, i >= 1 is stale[i].
CallIds == 0..Len(stale)
Call(i) == IF i = 0 THEN cur ELSE stale[i]
PutCall(i, c) ==
    /\ cur' = IF i = 0 THEN c ELSE cur
    /\ stale' = Prune(IF i = 0 THEN stale ELSE [stale EXCEPT ![i] = c])

\* The io_context thread runs one handler at a time.
IoIdle == \A i \in CallIds : Call(i).timer # "cancelling"

\* ------------------------------------------------ TcpClient (TcpClient.hpp)
\* TcpClient::close(): nothing on a closed socket; else cancel, shutdown, close.
TcpClose ==
    IF ~sockOpen
    THEN UNCHANGED <<sock, unread, cur, stale>>
    ELSE /\ sock' = "closed"
         /\ unread' = 0
         /\ cur' = CancelOp(cur)
         /\ stale' = Prune(MapSeq(stale, CancelOp))

\* EtherDreamDevice::close() that forgets rememberedAddress.reset() after
\* tcpClient.close().
DeviceCloseKeepsAddress ==
    IF ~sockOpen
    THEN /\ rememberedAddress' = FALSE
         /\ UNCHANGED <<sock, unread, cur, stale>>
    ELSE /\ TcpClose
         /\ UNCHANGED rememberedAddress

\* EtherDreamDevice::close()
DeviceClose ==
    IF ~sockOpen
    THEN /\ rememberedAddress' = FALSE
         /\ UNCHANGED <<sock, unread, cur, stale>>
    ELSE /\ TcpClose
         /\ rememberedAddress' = FALSE

\* EtherDreamDevice::isConnected()
IsConnected == sockOpen

\* TcpClient::connect(): close(), then a new socket, which async_connect
\* opens; the socket of the connection before is gone.
TcpConnectKeepsSocket(socket) ==
    IF socket = "connected" THEN "connected" ELSE "open"
TcpConnect(socket) == "open"

\* ------------------------------------- EtherDreamDevice: the pure helpers
\* ceil((pointRate * latency) / 1000 - bufferFullness), 0 when not positive.
calculateMinimumPoints(status, maxLatencyMillis) ==
    IF status.pointRate = 0 \/ maxLatencyMillis <= 0 THEN 0
    ELSE IF status.pointRate * maxLatencyMillis <= 1000 * status.bufferFullness
         THEN 0
         ELSE (status.pointRate * maxLatencyMillis
                 - 1000 * status.bufferFullness + 999) \div 1000

clampDesiredPointsUnbounded(minimumPointsNeeded, minPacketPoints, bufferFree) ==
    IF bufferFree = 0 THEN 0
    ELSE Max(minimumPointsNeeded, minPacketPoints)

clampDesiredPoints(minimumPointsNeeded, minPacketPoints, bufferFree) ==
    IF bufferFree = 0 THEN 0
    ELSE Min(Max(minimumPointsNeeded, minPacketPoints), bufferFree)

\* run(): bufferFree of the latest status.
BufferFree(status) ==
    IF ETHERDREAM_BUFFER_CAPACITY > status.bufferFullness
    THEN ETHERDREAM_BUFFER_CAPACITY - status.bufferFullness
    ELSE 0

\* run(): desiredPoints of the latest status.
DesiredPoints(status) ==
    clampDesiredPoints(calculateMinimumPoints(status, latencyMillis),
                       ETHERDREAM_MIN_PACKET_POINTS, BufferFree(status))

\* What the generator callback may append for a request (min, max): the
\* minimum, the maximum, one short of the minimum, one more than the maximum.
Produced(min, max) == {n \in {min, max, min - 1, max + 1} : n >= 0}

\* The 22-byte acks the DAC may send in reply to `command`: accepted or not,
\* echoing the command, the '?' of an earlier ping, or something else.
Replies(command) ==
    {rx \in [response : {"a", "N"}, command : {command, "?", "x"},
             status : Statuses] :
        (rx.response = "a" /\ rx.command = command)
            \/ rx.status \in RefusalStatuses}

\* waitForResponse() accepting on the response code alone.
AckAcceptedIgnoringEcho(rx, command) == rx.response = "a"

\* waitForResponse(): the check of the decoded ack against the command sent.
AckAccepted(rx, command) == rx.response = "a" /\ rx.command = command

\* The result of a command of the worker: an ack with its status, or an error.
NoRes ==
    [stage |-> "-", ok |-> FALSE, err |-> "none", response |-> "-",
     command |-> "-", expected |-> "-", status |-> DefaultStatus]
ResErr(stage, err) ==
    [stage |-> stage, ok |-> FALSE, err |-> err, response |-> "-",
     command |-> "-", expected |-> "-", status |-> DefaultStatus]
ResAck(stage, rx, command) ==
    [stage |-> stage, ok |-> AckAccepted(rx, command),
     err |-> IF AckAccepted(rx, command) THEN "none" ELSE "protocol_error",
     response |-> rx.response, command |-> rx.command, expected |-> command,
     status |-> rx.status]

\* Where the worker is: before the streaming loop, or inside it.
SetupStages == {"entry", "hs", "hs_ping", "setup_stop", "setup_clear"}
LoopStages == {"loop", "prepare", "data", "begin", "rate", "poll"}
WorkerAlive == wpc \in SetupStages \cup LoopStages \cup {"bail", "post"}

\* --------------------------------------- EtherDreamDevice::run, step by step
\* The PointFillRequest of an iteration (minimumPointsRequired,
\* maximumPointsRequired) and the number of points the callback appended.
NoFill == [min |-> 0, max |-> 0, produced |-> 0, asked |-> FALSE]
Fill(min, max, produced) ==
    [min |-> min, max |-> max, produced |-> produced, asked |-> TRUE]

\* requestPoints(): the two assert()s, which only some builds keep.
AssertsHold(request) ==
    /\ request.produced >= request.min
    /\ request.max > 0 => request.produced <= request.max

\* Where run() goes next: the position it reaches, the command frame it starts
\* writing there ("-" for none), the idle-poll counter, and whether it went
\* through handleFailure on the way.
Goto(pc, counter) ==
    [pc |-> pc, tx |-> "-", points |-> 0, rateBit |-> FALSE,
     counter |-> counter, failed |-> FALSE, fill |-> NoFill, abort |-> FALSE,
     keep |-> TRUE, buffer |-> 0]
Tx(pc, cmd, points, rateBit, counter) ==
    [pc |-> pc, tx |-> cmd, points |-> points, rateBit |-> rateBit,
     counter |-> counter, failed |-> FALSE, fill |-> NoFill, abort |-> FALSE,
     keep |-> TRUE, buffer |-> 0]
Fail(pc) ==
    [pc |-> pc, tx |-> "-", points |-> 0, rateBit |-> FALSE,
     counter |-> 0, failed |-> TRUE, fill |-> NoFill, abort |-> FALSE,
     keep |-> TRUE, buffer |-> 0]

\* A failed assert() of requestPoints in a build that keeps assertions: the
\* process aborts.
Abort ==
    [pc |-> "aborted", tx |-> "-", points |-> 0, rateBit |-> FALSE,
     counter |-> 0, failed |-> FALSE, fill |-> NoFill, abort |-> TRUE,
     keep |-> TRUE, buffer |-> 0]

\* Steps 6 and 7: sleep, then the idle status poll every IdlePollLimit-th
\* iteration that sent no frame.
AfterSleep(sent, counter) ==
    IF sent THEN Goto("loop", 0)
    ELSE IF counter + 1 >= IdlePollLimit
         THEN Tx("poll", "?", 0, FALSE, 0)
         ELSE Goto("loop", counter + 1)

\* Step 5: ensure playback is running at the target rate.
AfterData(status, sent, counter) ==
    IF status.playbackState # Playing
    THEN Tx("begin", "b", 0, FALSE, counter)
    ELSE IF status.pointRate # ETHERDREAM_TARGET_POINT_RATE
         THEN Tx("rate", "q", 0, FALSE, counter)
         ELSE AfterSleep(sent, counter)

\* LaserDeviceBase::requestPoints on an outbound buffer of `buffer` points,
\* with a callback that appends `n` points to the scratch batch: the batch is
\* appended to the outbound buffer.
requestPoints(hasCallback, buffer, n) ==
    IF ~hasCallback
    THEN [ok |-> FALSE, pointsToSend |-> buffer, invoked |-> 0]
    ELSE [ok |-> TRUE, pointsToSend |-> buffer + n, invoked |-> 1]

\* run() empties the outbound buffer before it asks for points.
ClearBeforeRequest(buffer) == 0

\* run(): a batch below the requested minimum is not sent.
UnderfilledNever(produced, size, desiredPoints) == ~produced
Underfilled(produced, size, desiredPoints) ==
    ~produced \/ size < desiredPoints

\* run(): cap the packet to the free space of the FIFO.
CapToFreeSkipped(size, bufferFree) == size
CapToFree(size, bufferFree) ==
    IF size > bufferFree THEN bufferFree ELSE size

\* The plan of step 4 once the callback has appended n points.
Generated(status, counter, pending, hasCallback, n) ==
    LET desiredPoints == DesiredPoints(status)
        bufferFree == BufferFree(status)
        got == requestPoints(hasCallback,
                             ClearBeforeRequest(pointsToSend), n)
        capped == CapToFree(got.pointsToSend, bufferFree)
        req == Fill(desiredPoints, bufferFree, got.invoked * n)
    IN  IF Underfilled(got.ok, got.pointsToSend, desiredPoints)
        THEN [Fail("post") EXCEPT !.fill = req, !.keep = FALSE,
                                  !.buffer = got.pointsToSend]
        ELSE [Tx("data", "d", Min(capped, UInt16Max), pending, counter)
              EXCEPT !.fill = req, !.keep = FALSE, !.buffer = capped]

\* Step 4: size the request, call the generator, build the data frame.
AfterPrepare(status, counter, pending, hasCallback) ==
    IF DesiredPoints(status) = 0 THEN {AfterData(status, FALSE, counter)}
    ELSE IF ~hasCallback
         THEN {Generated(status, counter, pending, FALSE, 0)}
    ELSE UNION {
           {Generated(status, counter, pending, TRUE, n)}
           \cup
           (IF AssertsHold(Fill(DesiredPoints(status), BufferFree(status), n))
            THEN {} ELSE {Abort})
           : n \in Produced(DesiredPoints(status), BufferFree(status)) }

\* while (running): prepare the DAC when it is idle, else go on to step 4.
AtLoopHead(isRunning, status, counter, pending, hasCallback) ==
    IF ~isRunning THEN {Goto("post", 0)}
    ELSE IF status.playbackState = Idle
         THEN {Tx("prepare", "p", 0, FALSE, counter)}
         ELSE AfterPrepare(status, counter, pending, hasCallback)

\* Setup: clear an e-stop or underflow left on the DAC.
AfterSetupStop(status) ==
    IF IsEstop(status) \/ Underflow(status)
    THEN Tx("setup_clear", "c", 0, FALSE, 0)
    ELSE Goto("loop", 0)

\* Setup: stop the DAC unless it is idle already.
AfterHandshake(status) ==
    IF status.playbackState # Idle
    THEN Tx("setup_stop", "s", 0, FALSE, 0)
    ELSE AfterSetupStop(status)

\* run() giving up at once when the ack sent on connection does not arrive.
HandlesFailureAtOnce(stage) == stage # "poll"

\* Whether a failed command of this stage goes through handleFailure.
HandlesFailure(stage) == stage \notin {"hs", "poll"}

\* What run() does with the result of the command of `stage`.
Continue(stage, ok, status, sent, counter, pending, hasCallback) ==
    IF ok
    THEN CASE stage \in {"hs", "hs_ping"} -> {AfterHandshake(status)}
           [] stage = "setup_stop" -> {AfterSetupStop(status)}
           [] stage = "setup_clear" -> {Goto("loop", 0)}
           [] stage = "prepare" ->
                  AfterPrepare(status, counter, pending, hasCallback)
           [] stage = "data" ->
                  {[AfterData(status, TRUE, counter)
                    EXCEPT !.keep = FALSE, !.buffer = 0]}
           [] stage \in {"begin", "rate"} -> {AfterSleep(sent, counter)}
           [] OTHER -> {Goto("loop", 0)}
    ELSE IF HandlesFailure(stage)
         THEN {Fail(IF stage \in SetupStages THEN "bail" ELSE "post")}
         ELSE IF stage = "hs"
              THEN {Tx("hs_ping", "?", 0, FALSE, 0)}
              ELSE {Goto("loop", 0)}

\* The worker goes where the plan says; handleFailure clears `running`.
Apply(plan, rest) ==
    /\ wpc' = plan.pc
    /\ idlePollCounter' = plan.counter
    /\ fill' = plan.fill
    /\ pointsToSend' = IF plan.keep THEN pointsToSend ELSE plan.buffer
    /\ crashed' = (crashed \/ plan.abort)
    /\ running' = IF plan.failed THEN FALSE ELSE running
    /\ failureEncountered' = (failureEncountered \/ plan.failed)
    /\ wio' = IF plan.tx = "-" THEN "-" ELSE "w"
    /\ cur' = IF plan.tx = "-" THEN NoCall
              ELSE StartCall("write", plan.tx, plan.points, plan.rateBit,
                             sockOpen)
    /\ stale' = rest

\* The flag cleared by every data frame, acknowledged or not.
RateChangeClearedByAnyFrame(res, pending) ==
    IF res.ok /\ res.stage = "rate" THEN TRUE
    ELSE IF res.stage = "data" THEN FALSE
    ELSE pending

\* rateChangePending after a command: setPointRate sets it when 'q' is
\* acknowledged; run() clears it when the data frame that carried the bit is.
RateChangeAfter(res, pending) ==
    IF res.ok /\ res.stage = "rate" THEN TRUE
    ELSE IF res.ok /\ res.stage = "data" /\ pending THEN FALSE
    ELSE pending

\* A command of the worker is over, with an accepted ack or an error.
CmdDone(res, status, rest) ==
    /\ wres' = res
    /\ lastKnownStatus' = IF res.ok THEN status ELSE lastKnownStatus
    /\ rateChangePending' = RateChangeAfter(res, rateChangePending)
    /\ sentFrame' = (IF res.stage = "data" /\ res.ok THEN TRUE ELSE sentFrame)
    /\ \E plan \in Continue(res.stage, res.ok,
                            IF res.ok THEN status ELSE lastKnownStatus,
                            IF res.stage = "data" /\ res.ok THEN TRUE
                            ELSE sentFrame,
                            idlePollCounter,
                            RateChangeAfter(res, rateChangePending),
                            callbackSet) :
          Apply(plan, rest)
    /\ UNCHANGED <<workerJoinable, joins, extraWorker, sock, unread, appVars>>

\* run() entry: without an open socket it gives up; else it waits for the
\* ack the DAC sends on connection.
WEntry ==
    /\ ~crashed /\ wpc = "entry"
    /\ IF ~sockOpen
       THEN /\ running' = FALSE
            /\ wpc' = "exited"
            /\ lastKnownStatus' = DefaultStatus
            /\ UNCHANGED <<wio, cur>>
       ELSE /\ wpc' = "hs"
            /\ wio' = "r"
            /\ cur' = StartCall("read", "?", 0, FALSE, TRUE)
            /\ UNCHANGED <<running, lastKnownStatus>>
    /\ UNCHANGED <<workerJoinable, joins, extraWorker, crashed,
                   failureEncountered, idlePollCounter, sentFrame,
                   rateChangePending, wres, fill, pointsToSend, sock, unread,
                   stale, appVars>>
    /\ UNCHANGED baseVars

\* The worker returns from write_all or read_exact (with_deadline returns
\* st->ec) and runs on to where it blocks next.
WReturn ==
    /\ ~crashed /\ wio \in {"w", "r"}
    /\ WaitDone(cur)
    /\ Len(Retire(cur, stale)) <= MaxStale
    /\ IF wio = "w" /\ cur.ec = "ok" /\ sockOpen
       THEN /\ cur' = StartCall("read", cur.cmd, 0, FALSE, TRUE)
            /\ stale' = Retire(cur, stale)
            /\ wio' = "r"
            /\ wres' = NoRes
            /\ UNCHANGED <<threadVars, wpc, failureEncountered,
                           idlePollCounter, sentFrame, lastKnownStatus,
                           rateChangePending, fill, pointsToSend, sock, unread,
                           appVars>>
       ELSE IF wio = "r" /\ cur.ec = "ok"
            THEN \E rx \in Replies(cur.cmd) :
                    CmdDone(ResAck(wpc, rx, cur.cmd), rx.status,
                            Retire(cur, stale))
            ELSE CmdDone(ResErr(wpc, IF cur.ec = "ok" THEN "not_connected"
                                     ELSE cur.ec),
                         lastKnownStatus, Retire(cur, stale))
    /\ UNCHANGED baseVars

\* The head of the streaming loop.
WLoop ==
    /\ ~crashed /\ wpc = "loop"
    /\ sentFrame' = FALSE
    /\ wres' = NoRes
    /\ \E plan \in AtLoopHead(running, lastKnownStatus, idlePollCounter,
                              rateChangePending, callbackSet) :
          Apply(plan, stale)
    /\ UNCHANGED <<workerJoinable, joins, extraWorker,
                   lastKnownStatus, rateChangePending, sock, unread, appVars>>
    /\ UNCHANGED baseVars

\* run() returns.  Its locals are gone, and the status it kept is not read
\* again: the next run overwrites it before reading it.  The same holds of
\* what is left in the outbound buffer, which the next run empties before it
\* asks for points.
Exit ==
    /\ wpc' = "exited"
    /\ sentFrame' = FALSE
    /\ lastKnownStatus' = DefaultStatus
    /\ wres' = NoRes
    /\ fill' = NoFill
    /\ pointsToSend' = 0

\* The post-loop close() without `if (!failureEncountered) return;`.
PostClosesAlways == sockOpen

\* After the loop run() closes the connection when a failure was handled.
PostCloses == sockOpen /\ failureEncountered

WPost ==
    /\ ~crashed /\ wpc = "post"
    /\ IF PostCloses
       THEN DeviceClose
       ELSE UNCHANGED <<sock, unread, rememberedAddress, cur, stale>>
    /\ Exit
    /\ UNCHANGED <<threadVars, wio, failureEncountered, idlePollCounter,
                   rateChangePending, ctl, aux, callbackSet>>
    /\ UNCHANGED baseVars

\* `handleFailure(...); return;` of the handshake and the setup commands:
\* run() returns at once.
WBail ==
    /\ ~crashed /\ wpc = "bail"
    /\ Exit
    /\ UNCHANGED <<threadVars, wio, failureEncountered, idlePollCounter,
                   rateChangePending, netVars, appVars>>
    /\ UNCHANGED baseVars

\* ------------------------------------------------ the network and the clock
\* The operation of call i completes (the peer answered, or the transport
\* failed) and the executor runs its completion handler.
NetComplete(i, code) ==
    /\ ~crashed /\ IoIdle
    /\ Call(i).op = "pending"
    /\ code = "ok" =>
          IF Call(i).kind = "connect" THEN sockOpen ELSE sock = "connected"
    /\ PutCall(i, OpHandler(Call(i), code))
    /\ sock' = IF Call(i).kind = "connect" /\ code = "ok" THEN "connected"
               ELSE sock
    /\ UNCHANGED <<threadVars, workerVars, unread, appVars>>
    /\ UNCHANGED baseVars

\* The same completion with the acks of the DAC counted: the DAC sends one
\* ack when the connection is made and one for each command it receives,
\* and a read that completes takes the oldest ack unread.
DacComplete(i, code) ==
    /\ ~crashed /\ IoIdle
    /\ Call(i).op = "pending"
    /\ code = "ok" =>
          IF Call(i).kind = "connect" THEN sockOpen ELSE sock = "connected"
    /\ PutCall(i, OpHandler(Call(i), code))
    /\ sock' = IF Call(i).kind = "connect" /\ code = "ok" THEN "connected"
               ELSE sock
    /\ (code = "ok" /\ Call(i).kind = "write") => unread < MaxUnread
    /\ unread' = Unread(Call(i).kind, code, unread)
    /\ UNCHANGED <<threadVars, workerVars, appVars>>
    /\ UNCHANGED baseVars

\* The deadline of call i passes: its wait handler is queued.
TimerExpire(i) ==
    /\ ~crashed
    /\ Call(i).timer = "armed"
    /\ PutCall(i, [Call(i) EXCEPT !.timer = "ok"])
    /\ UNCHANGED <<threadVars, workerVars, sock, unread, appVars>>
    /\ UNCHANGED baseVars

\* ------------------------------------------- the io_context thread's handlers
\* The completion handler of an operation that was cancelled, or that failed
\* at once on a closed socket.
RunOpHandler(i) ==
    /\ ~crashed /\ IoIdle
    /\ OpQueued(Call(i))
    /\ PutCall(i, OpHandler(Call(i), Call(i).op))
    /\ UNCHANGED <<threadVars, workerVars, sock, unread, appVars>>
    /\ UNCHANGED baseVars

\* The wait handler of the timer, up to the release of the State's mutex.
RunTimerHandler(i) ==
    /\ ~crashed /\ IoIdle
    /\ TimerQueued(Call(i))
    /\ PutCall(i, TimerHandler(Call(i)))
    /\ UNCHANGED <<threadVars, workerVars, sock, unread, appVars>>
    /\ UNCHANGED baseVars

\* The rest of the wait handler: cancel() is socket_.cancel(), which throws
\* on a closed socket (the exception leaves io_context::run()) and otherwise
\* aborts whatever operation is outstanding on the socket.
RunTimerCancel(i) ==
    /\ ~crashed
    /\ Call(i).timer = "cancelling"
    /\ IF ~sockOpen
       THEN /\ crashed' = TRUE
            /\ UNCHANGED <<cur, stale>>
       ELSE /\ crashed' = FALSE
            /\ LET done == [Call(i) EXCEPT !.timer = "handled"]
                   c0 == IF i = 0 THEN done ELSE cur
                   st == IF i = 0 THEN stale ELSE [stale EXCEPT ![i] = done]
               IN /\ cur' = CancelOp(c0)
                  /\ stale' = Prune(MapSeq(st, CancelOp))
    /\ UNCHANGED <<running, workerJoinable, joins, extraWorker, workerVars,
                   sock, unread, appVars>>
    /\ UNCHANGED baseVars

\* ------------------------------------------------- the application's threads
Thread(pc, last) == [pc |-> pc, last |-> last]

\* worker = std::thread(&LaserDeviceBase::run, this): the new thread is
\* started, then move-assigned; assigning to a joinable thread terminates.
SpawnWorker ==
    IF workerJoinable
    THEN /\ crashed' = TRUE
         /\ extraWorker' = WorkerAlive
         /\ UNCHANGED <<workerJoinable, joins, workerVars>>
    ELSE /\ workerJoinable' = TRUE
         /\ joins' = 0
         /\ wpc' = "entry"
         /\ wio' = "-"
         /\ failureEncountered' = FALSE
         /\ idlePollCounter' = 0
         /\ sentFrame' = FALSE
         /\ wres' = NoRes
         /\ fill' = NoFill
         /\ UNCHANGED <<crashed, extraWorker, lastKnownStatus,
                        rateChangePending, pointsToSend>>

\* start(): `if (running) return;`
StartReturnsEarly == running

CtlStart ==
    /\ ~crashed /\ ctl.pc = "idle"
    /\ ctl' = Thread(IF StartReturnsEarly THEN "idle" ELSE "start_set", "-")
    /\ UNCHANGED <<threadVars, workerVars, netVars, aux, callbackSet,
                   rememberedAddress>>
    /\ UNCHANGED baseVars

\* start(): running = true
CtlStartSet ==
    /\ ~crashed /\ ctl.pc = "start_set"
    /\ running' = TRUE
    /\ ctl' = Thread("start_spawn", "-")
    /\ UNCHANGED <<workerJoinable, joins, extraWorker, crashed, workerVars,
                   netVars, aux, callbackSet, rememberedAddress>>
    /\ UNCHANGED baseVars

\* start(): worker = std::thread(...)
CtlStartSpawn ==
    /\ ~crashed /\ ctl.pc = "start_spawn"
    /\ SpawnWorker
    /\ ctl' = Thread("idle", "-")
    /\ UNCHANGED <<running, netVars, aux, callbackSet, rememberedAddress>>
    /\ UNCHANGED baseVars

\* stop() without its worker.joinable() test and join.
StopNeedsJoinNever == FALSE

\* stop(): `if (worker.joinable())`
StopNeedsJoin == workerJoinable

\* stop(): running = false, then the joinable() test.
CtlStop ==
    /\ ~crashed /\ ctl.pc = "idle"
    /\ running' = FALSE
    /\ ctl' = Thread(IF StopNeedsJoin THEN "stop_join" ELSE "idle", "-")
    /\ UNCHANGED <<workerJoinable, joins, extraWorker, crashed, workerVars,
                   netVars, aux, callbackSet, rememberedAddress>>
    /\ UNCHANGED baseVars

\* stop(): worker.join() returns once run() has returned.
CtlStopJoin ==
    /\ ~crashed /\ ctl.pc = "stop_join"
    /\ wpc = "exited"
    /\ workerJoinable' = FALSE
    /\ joins' = joins + 1
    /\ wpc' = "off"
    /\ failureEncountered' = FALSE
    /\ sentFrame' = FALSE
    /\ wres' = NoRes
    /\ ctl' = Thread("idle", "-")
    /\ UNCHANGED <<running, extraWorker, crashed, wio, idlePollCounter,
                   lastKnownStatus, rateChangePending, fill, pointsToSend,
                   netVars, aux,
                   callbackSet, rememberedAddress>>
    /\ UNCHANGED baseVars

\* EtherDreamDevice::close() called by the application.
CtlClose ==
    /\ ~crashed /\ ctl.pc = "idle"
    /\ DeviceClose
    /\ ctl' = Thread("idle", IF ctl.last = "-" THEN "close" ELSE "close_again")
    /\ UNCHANGED <<threadVars, workerVars, aux, callbackSet>>
    /\ UNCHANGED baseVars

\* setRequestPointsCallback(), before the device is used.
CtlSetCallback ==
    /\ ~crashed /\ ctl.pc = "idle"
    /\ ~callbackSet /\ wpc = "off" /\ ~running /\ sock = "closed"
    /\ callbackSet' = TRUE
    /\ ctl' = Thread("idle", "-")
    /\ UNCHANGED <<threadVars, workerVars, netVars, aux, rememberedAddress>>
    /\ UNCHANGED baseVars

\* connect(): TcpClient::connect closes the socket, makes a new one and
\* starts connect_one under a deadline.  Called while no worker uses the
\* TcpClient.
CtlConnect ==
    /\ ~crashed /\ ctl.pc = "idle"
    /\ ~WorkerAlive /\ aux = "idle" /\ cur.kind = "none"
    /\ sock' = TcpConnect(sock)
    /\ unread' = 0
    /\ cur' = StartCall("connect", "-", 0, FALSE, TRUE)
    /\ stale' = Prune(MapSeq(stale, CancelOp))
    /\ ctl' = Thread("connect", "-")
    /\ UNCHANGED <<threadVars, workerVars, aux, callbackSet,
                   rememberedAddress>>
    /\ UNCHANGED baseVars

\* connect(): with_deadline returns; on success the address is remembered.
CtlConnectReturn ==
    /\ ~crashed /\ ctl.pc = "connect"
    /\ WaitDone(cur)
    /\ Len(Retire(cur, stale)) <= MaxStale
    /\ rememberedAddress' = (IF cur.ec = "ok" THEN TRUE ELSE rememberedAddress)
    /\ cur' = NoCall
    /\ stale' = Retire(cur, stale)
    /\ ctl' = Thread("idle", "-")
    /\ UNCHANGED <<threadVars, workerVars, sock, unread, aux, callbackSet>>
    /\ UNCHANGED baseVars

\* The second application thread calls start() at the same time.
AuxStart ==
    /\ ~crashed /\ aux = "idle" /\ ctl.pc # "connect"
    /\ aux' = IF StartReturnsEarly THEN "idle" ELSE "start_set"
    /\ UNCHANGED <<threadVars, workerVars, netVars, ctl, callbackSet,
                   rememberedAddress>>
    /\ UNCHANGED baseVars

AuxStartSet ==
    /\ ~crashed /\ aux = "start_set"
    /\ running' = TRUE
    /\ aux' = "start_spawn"
    /\ UNCHANGED <<workerJoinable, joins, extraWorker, crashed, workerVars,
                   netVars, ctl, callbackSet, rememberedAddress>>
    /\ UNCHANGED baseVars

AuxStartSpawn ==
    /\ ~crashed /\ aux = "start_spawn"
    /\ SpawnWorker
    /\ aux' = "idle"
    /\ UNCHANGED <<running, netVars, ctl, callbackSet, rememberedAddress>>
    /\ UNCHANGED baseVars

\* ------------------------------------- TcpClient used with its own timeouts
\* The timeouts a caller of TcpClient passes, in milliseconds.
TimeoutInputs == {-5, 0, 50}

\* TcpClient::connect(endpoint, timeout)
TcpConnectCall ==
    /\ ~crashed /\ ctl.pc = "idle"
    /\ wpc = "off" /\ aux = "idle" /\ cur.kind = "none"
    /\ \E timeout \in TimeoutInputs :
          cur' = StartCallWithin(sanitize(timeout), "connect", TRUE)
    /\ sock' = TcpConnect(sock)
    /\ unread' = 0
    /\ stale' = Prune(MapSeq(stale, CancelOp))
    /\ ctl' = Thread("connect", "-")
    /\ UNCHANGED <<threadVars, workerVars, aux, callbackSet,
                   rememberedAddress, baseVars>>

\* TcpClient::read_exact(buf, n, timeout)
TcpReadCall ==
    /\ ~crashed /\ ctl.pc = "idle"
    /\ wpc = "off" /\ aux = "idle" /\ cur.kind = "none"
    /\ \E timeout \in TimeoutInputs :
          cur' = StartCallWithin(sanitize(timeout), "read", sockOpen)
    /\ ctl' = Thread("connect", "-")
    /\ UNCHANGED <<threadVars, workerVars, sock, unread, stale, aux, callbackSet,
                   rememberedAddress, baseVars>>

\* with_deadline returns to the caller of the TcpClient.
TcpReturn ==
    /\ ~crashed /\ ctl.pc = "connect"
    /\ WaitDone(cur)
    /\ Len(Retire(cur, stale)) <= MaxStale
    /\ cur' = NoCall
    /\ stale' = Retire(cur, stale)
    /\ ctl' = Thread("idle", "-")
    /\ UNCHANGED <<threadVars, workerVars, sock, unread, aux, callbackSet,
                   rememberedAddress, baseVars>>

\* TcpClient::close()
TcpCloseCall ==
    /\ ~crashed /\ ctl.pc = "idle"
    /\ TcpClose
    /\ UNCHANGED <<threadVars, workerVars, appVars, baseVars>>

\* ------------------------------------------- EtherDreamCommand: data frames
\* run(), frame assembly with every point flagged while a change is pending.
SetRateBitEveryPoint(injectRateChange, idx) == injectRateChange

\* run(): `setRateBit = injectRateChange && idx == 0`
SetRateBit(injectRateChange, idx) == injectRateChange /\ idx = 0

\* addPoint(): `control = setRateChangeFlag ? RATE_CHANGE_BIT : 0u`
ControlWord(setRateChangeFlag) ==
    IF setRateChangeFlag THEN RATE_CHANGE_BIT ELSE 0

\* The control word of point idx of the data frame being written.
FrameControl(idx) == ControlWord(SetRateBit(cur.rateBit, idx))

\* --------------------- EtherDreamCommand / EtherDreamProtocol: the encoders
\* A float value: a multiple of 1/1000, or NaN.
Float(milli) == [nan |-> FALSE, milli |-> milli]
NaN == [nan |-> TRUE, milli |-> 0]

\* std::clamp(value, lo, hi): every comparison with NaN is false, so NaN
\* comes back as it went in.  The bounds are in thousandths.
clampSkipped(value, lo, hi) == value
clamp(value, lo, hi) ==
    IF value.nan THEN value ELSE Float(Min(Max(value.milli, lo), hi))

\* clampFast(value, lo, hi) == std::min(std::max(value, lo), hi)
clampFast(value, lo, hi) ==
    IF value.nan THEN value ELSE Float(Min(Max(value.milli, lo), hi))

\* static_cast<std::int32_t> of the float num/den: truncation toward zero.
Truncate(num, den) ==
    IF num >= 0 THEN num \div den ELSE -((-num) \div den)

\* static_cast<std::int32_t>(NaN) is undefined; x86 builds give INT32_MIN,
\* Arm builds give 0.
NanToInt32 == {-2147483647 - 1, 0}

\* static_cast<std::int16_t> and static_cast<std::uint16_t> keep 16 bits.
ToInt16(n) == ((n + 32768) % 65536) - 32768
ToUInt16(n) == n % 65536

\* scaled >= 0 ? scaled + 0.5f : scaled - 0.5f, cast to int32; `scaled` is
\* in thousandths.
RoundHalfAway(scaled) ==
    Truncate(IF scaled >= 0 THEN 2 * scaled + 1000 ELSE 2 * scaled - 1000,
             2000)

\* EtherDreamCommand::encodeCoordinate: the words a build may produce.
encodeCoordinate(value) ==
    LET clamped == clamp(value, -1000, 1000)
        rounded == IF clamped.nan THEN NanToInt32
                   ELSE {RoundHalfAway(clamped.milli * COORD_SCALE)}
    IN  {ToInt16(Min(Max(r, -32768), 32767)) : r \in rounded}

\* EtherDreamCommand::encodeChannel
encodeChannel(value) ==
    LET clamped == clamp(value, 0, 1000)
        rounded == IF clamped.nan THEN NanToInt32
                   ELSE {Truncate(2 * clamped.milli * CHANNEL_SCALE + 1000,
                                  2000)}
    IN  {ToUInt16(Min(Max(r, 0), 65535)) : r \in rounded}

\* EtherDreamProtocol.cpp: fastRound, encodeCoordinate, encodeChannel.
fastRound(value, scale) ==
    IF value.nan THEN NanToInt32 ELSE {RoundHalfAway(value.milli * scale)}

protocolEncodeCoordinate(value) ==
    {ToUInt16(ToInt16(r)) :
        r \in fastRound(clampFast(value, -1000, 1000),
                        ETHERDREAM_COORD_SCALE)}

protocolEncodeChannel(value) ==
    {ToUInt16(IF r < 0 THEN 0
              ELSE IF r > ETHERDREAM_CHANNEL_SCALE
                   THEN ETHERDREAM_CHANNEL_SCALE ELSE r) :
        r \in fastRound(clampFast(value, 0, 1000), ETHERDREAM_CHANNEL_SCALE)}

\* The coordinates and channel values a point may carry.
CoordinateInputs ==
    {Float(m) : m \in {-3000, -1500, -1001, -1000, -999, -500, -1, 0, 1,
                       500, 999, 1000, 1001, 1500, 3000}} \cup {NaN}
ChannelInputs ==
    {Float(m) : m \in {-3000, -500, -1, 0, 1, 500, 999, 1000, 1001, 2000,
                       3000}} \cup {NaN}

Encoders == {"command", "protocol"}

CoordinateWords(encoder, value) ==
    IF encoder = "command" THEN encodeCoordinate(value)
    ELSE protocolEncodeCoordinate(value)

ChannelWords(encoder, value) ==
    IF encoder = "command" THEN encodeChannel(value)
    ELSE protocolEncodeChannel(value)

NotEncoded ==
    [encoder |-> "-", kind |-> "-", value |-> Float(0), word |-> 0]

\* One coordinate or one channel value goes through an encoder.
AppEncode ==
    /\ \E encoder \in Encoders :
         \/ \E value \in CoordinateInputs :
              \E word \in CoordinateWords(encoder, value) :
                 encoded' = [encoder |-> encoder, kind |-> "coordinate",
                             value |-> value, word |-> word]
         \/ \E value \in ChannelInputs :
              \E word \in ChannelWords(encoder, value) :
                 encoded' = [encoder |-> encoder, kind |-> "channel",
                             value |-> value, word |-> word]
    /\ UNCHANGED <<threadVars, workerVars, netVars, appVars, latencyMillis,
                   lastLatency, lastCall, refill, frame, decodeVars>>

\* ------------------------------------------------- the data frame builders
\* A field of a frame: its size in bytes and its value.
Field(bytes, value) == [bytes |-> bytes, value |-> value]

LaserPoint(x, y, r, g, b, i, u1, u2) ==
    [x |-> Float(x), y |-> Float(y), r |-> Float(r), g |-> Float(g),
     b |-> Float(b), i |-> Float(i), u1 |-> Float(u1), u2 |-> Float(u2)]

\* The points frames are built from: the default point, and one with values
\* on and beyond the bounds.
SamplePoints ==
    {LaserPoint(0, 0, 0, 0, 0, 0, 0, 0),
     LaserPoint(1500, -1500, 2000, 1000, 500, -1, 0, 0)}

\* The word of a value that is not NaN.
Word(words) == CHOOSE word \in words : TRUE

\* EtherDreamCommand::setDataCommand
setDataCommand(pointCount) ==
    <<Field(1, DataOpcode), Field(2, ToUInt16(pointCount))>>

\* EtherDreamCommand::addPoint
addPoint(buffer, point, setRateChangeFlag) ==
    buffer \o <<Field(2, ControlWord(setRateChangeFlag)),
                Field(2, Word(encodeCoordinate(point.x))),
                Field(2, Word(encodeCoordinate(point.y))),
                Field(2, Word(encodeChannel(point.r))),
                Field(2, Word(encodeChannel(point.g))),
                Field(2, Word(encodeChannel(point.b))),
                Field(2, Word(encodeChannel(point.i))),
                Field(2, Word(encodeChannel(point.u1))),
                Field(2, Word(encodeChannel(point.u2)))>>

\* run(): the loop over idx < pointCount that adds the points.
RECURSIVE AddPoints(_, _, _, _, _)
AddPoints(buffer, point, injectRateChange, idx, pointCount) ==
    IF idx >= pointCount THEN buffer
    ELSE AddPoints(addPoint(buffer, point,
                            SetRateBit(injectRateChange, idx)),
                   point, injectRateChange, idx + 1, pointCount)

\* run(): the frame for n copies of a point.
CommandFrame(n, point, injectRateChange) ==
    AddPoints(setDataCommand(Min(n, UInt16Max)), point, injectRateChange,
              0, Min(n, UInt16Max))

\* serializePoints(): the loop over the points.
RECURSIVE WritePoints(_, _, _, _)
WritePoints(packet, point, rateFlagPending, left) ==
    IF left = 0 THEN packet
    ELSE WritePoints(
           packet \o <<Field(2, IF rateFlagPending THEN 32768 ELSE 0),
                       Field(2, Word(protocolEncodeCoordinate(point.x))),
                       Field(2, Word(protocolEncodeCoordinate(point.y))),
                       Field(2, Word(protocolEncodeChannel(point.r))),
                       Field(2, Word(protocolEncodeChannel(point.g))),
                       Field(2, Word(protocolEncodeChannel(point.b))),
                       Field(2, Word(protocolEncodeChannel(point.i))),
                       Field(2, Word(protocolEncodeChannel(point.u1))),
                       Field(2, Word(protocolEncodeChannel(point.u2)))>>,
           point, FALSE, left - 1)

\* protocol::serializePoints for n copies of a point: nothing for an empty
\* batch, else the opcode, the count, a flags word and the points.
serializePoints(n, point, rateChangeRequested) ==
    IF n = 0 THEN <<>>
    ELSE WritePoints(<<Field(1, DataOpcode), Field(2, ToUInt16(n)),
                       Field(2, 0)>>,
                     point, rateChangeRequested, n)

\* The number of bytes of a frame.
RECURSIVE FrameSize(_)
FrameSize(fields) ==
    IF fields = <<>> THEN 0
    ELSE Head(fields).bytes + FrameSize(Tail(fields))

NoFrame == [encoder |-> "-", points |-> 0, fields |-> <<>>]

\* A data frame is built for n points.
AppBuildFrame ==
    /\ \E encoder \in Encoders, n \in 0..MaxFramePoints,
          point \in SamplePoints, rate \in BOOLEAN :
          frame' = [encoder |-> encoder, points |-> n,
                    fields |-> IF encoder = "command"
                               THEN CommandFrame(n, point, rate)
                               ELSE serializePoints(n, point, rate)]
    /\ UNCHANGED <<threadVars, workerVars, netVars, appVars, latencyMillis,
                   lastLatency, lastCall, refill, encoded, decodeVars>>

\* ------------------------------ EtherDreamResponse: decoding a 22-byte ack
\* The byte at offset i of a buffer (offsets count from 0, as data[i] does).
Byte(data, i) == data[i + 1]

read_le_u16(data, at) == Byte(data, at) + 256 * Byte(data, at + 1)

read_le_u32(data, at) ==
    Byte(data, at) + 256 * Byte(data, at + 1) + 65536 * Byte(data, at + 2)
        + 16777216 * Byte(data, at + 3)

\* EtherDreamStatus with all its fields, and EtherDreamResponse.
EtherDreamStatus(protocol, les, ps, source, lef, pf, sf, bf, pr, pc) ==
    [protocol |-> protocol, lightEngineState |-> les, playbackState |-> ps,
     source |-> source, lightEngineFlags |-> lef, playbackFlags |-> pf,
     sourceFlags |-> sf, bufferFullness |-> bf, pointRate |-> pr,
     pointCount |-> pc]

EtherDreamResponse(response, command, status) ==
    [response |-> response, command |-> command, status |-> status]

\* EtherDreamResponse{} : every field zero.
NewResponse ==
    EtherDreamResponse(0, 0, EtherDreamStatus(0, 0, 0, 0, 0, 0, 0, 0, 0, 0))

\* A buffer handed to decode: a null pointer, or `size` readable bytes.
NullBuffer == [null |-> TRUE, bytes |-> <<>>]
Buffer(bytes) == [null |-> FALSE, bytes |-> bytes]

\* decode() that resets the object when it refuses the input.
decodeClearsOnFailure(self, data, size) ==
    IF data.null \/ size < 22
    THEN [ok |-> FALSE, self |-> NewResponse]
    ELSE [ok |-> TRUE,
          self |-> EtherDreamResponse(
                     Byte(data.bytes, 0), Byte(data.bytes, 1),
                     EtherDreamStatus(
                       Byte(data.bytes, 2), Byte(data.bytes, 3),
                       Byte(data.bytes, 4), Byte(data.bytes, 5),
                       read_le_u16(data.bytes, 6), read_le_u16(data.bytes, 8),
                       read_le_u16(data.bytes, 10),
                       read_le_u16(data.bytes, 12),
                       read_le_u32(data.bytes, 14),
                       read_le_u32(data.bytes, 18)))]

\* EtherDreamResponse::decode(data, size) on the object `self`: the result,
\* and the object after the call.  The state bytes are stored as they come.
decode(self, data, size) ==
    IF data.null \/ size < 22
    THEN [ok |-> FALSE, self |-> self]
    ELSE [ok |-> TRUE,
          self |-> EtherDreamResponse(
                     Byte(data.bytes, 0), Byte(data.bytes, 1),
                     EtherDreamStatus(
                       Byte(data.bytes, 2), Byte(data.bytes, 3),
                       Byte(data.bytes, 4), Byte(data.bytes, 5),
                       read_le_u16(data.bytes, 6), read_le_u16(data.bytes, 8),
                       read_le_u16(data.bytes, 10),
                       read_le_u16(data.bytes, 12),
                       read_le_u32(data.bytes, 14),
                       read_le_u32(data.bytes, 18)))]

\* waitForResponse(): what the caller gets for 22 bytes read from the DAC.
ResponseError(raw, command) ==
    LET got == decode(NewResponse, Buffer(raw), Len(raw))
    IN  IF ~got.ok THEN "protocol_error"
        ELSE IF got.self.response # 97 \/ got.self.command # command
             THEN "protocol_error"
             ELSE "none"

\* The acks decode is given: 'a' or 'N' for '?', with state bytes inside and
\* outside 0..3, the underflow flag, a full FIFO (1799), point rate 30000.
AckBytes ==
    { <<response, 63, 0, les, ps, 0, 0, 0, pf, 0, 0, 0, 7, 7, 48, 117, 0, 0,
        0, 0, 0, 0>> :
        response \in {97, 78}, les \in {0, 3, 4}, ps \in {0, 2, 255},
        pf \in {0, 4} }

\* The sizes a caller passes with them.
AckSizes == {0, 1, 21, 22}

NoDecode ==
    [called |-> FALSE, null |-> FALSE, size |-> 0, ok |-> FALSE,
     lightEngineState |-> 0, playbackState |-> 0, error |-> "none",
     before |-> NewResponse]

\* decode() is called on the object with the first `size` bytes of an ack,
\* or with a null pointer.
AppDecodeAck ==
    /\ \/ \E raw \in AckBytes, size \in AckSizes :
             LET got == decode(ackResponse, Buffer(SubSeq(raw, 1, size)), size)
             IN  /\ ackResponse' = got.self
                 /\ lastDecode' =
                       [called |-> TRUE, null |-> FALSE, size |-> size,
                        ok |-> got.ok,
                        lightEngineState |->
                            IF size = 22 THEN Byte(raw, 3) ELSE 0,
                        playbackState |->
                            IF size = 22 THEN Byte(raw, 4) ELSE 0,
                        error |-> IF size = 22 THEN ResponseError(raw, 63)
                                  ELSE "none",
                        before |-> ackResponse]
       \/ \E size \in AckSizes :
             LET got == decode(ackResponse, NullBuffer, size)
             IN  /\ ackResponse' = got.self
                 /\ lastDecode' =
                       [called |-> TRUE, null |-> TRUE, size |-> size,
                        ok |-> got.ok, lightEngineState |-> 0,
                        playbackState |-> 0, error |-> "none",
                        before |-> ackResponse]
    /\ UNCHANGED <<threadVars, workerVars, netVars, appVars, latencyMillis,
                   lastLatency, lastCall, refill, codecVars, decoded, roundTrip>>

\* ------------------------------- libera::schema: codecs, validators, decode
\* ByteView::subspan(n): the view advanced by n bytes.
subspan(s, n) == IF n > Len(s) THEN <<>> ELSE SubSeq(s, n + 1, Len(s))

\* What a codec's read gives: a value and the view after it, or an error.
ReadOk(value, rest) == [ok |-> TRUE, value |-> value, rest |-> rest]
ReadError == [ok |-> FALSE, value |-> 0, rest |-> <<>>]

\* BeU8 / BeU16 / BeU32 ::read: bounds check, big-endian value, advance.
BeU8Read(s) ==
    IF Len(s) < 1 THEN ReadError ELSE ReadOk(s[1], subspan(s, 1))

BeU16Read(s) ==
    IF Len(s) < 2 THEN ReadError
    ELSE ReadOk(s[1] * 256 + s[2], subspan(s, 2))

BeU32Read(s) ==
    IF Len(s) < 4 THEN ReadError
    ELSE ReadOk(s[1] * 16777216 + s[2] * 65536 + s[3] * 256 + s[4],
                subspan(s, 4))

\* BeU8 / BeU16 / BeU32 ::write: the bytes appended to `out`.
BeU8Write(v) == <<v % 256>>

BeU16WriteLittleEndian(v) == <<v % 256, (v \div 256) % 256>>
BeU16Write(v) == <<(v \div 256) % 256, v % 256>>

BeU32Write(v) ==
    <<(v \div 16777216) % 256, (v \div 65536) % 256, (v \div 256) % 256,
      v % 256>>

CodecRead(codec, s) ==
    CASE codec = "BeU8" -> BeU8Read(s)
      [] codec = "BeU16" -> BeU16Read(s)
      [] codec = "BeU32" -> BeU32Read(s)

CodecWrite(codec, v) ==
    CASE codec = "BeU8" -> BeU8Write(v)
      [] codec = "BeU16" -> BeU16Write(v)
      [] codec = "BeU32" -> BeU32Write(v)

\* NonZero: an integral value must not be 0.
NonZero(v) == v # 0

\* EnumRange<Enum, Min, Max> without its test against Max.
EnumRangeNoMax(min, max, raw) == ~(raw < min)

\* EnumRange<Enum, Min, Max>: the raw value lies in [Min, Max].
EnumRange(min, max, raw) == ~(raw < min \/ raw > max)

\* A validator attached to a field, applied to a value.
Validate(validator, v) ==
    CASE validator = "NonZero" -> NonZero(v)
      [] validator = "LE_Range" -> EnumRange(0, 3, v)
      [] validator = "PB_Range" -> EnumRange(0, 3, v)
      [] validator = "SRC_Range" -> EnumRange(0, 2, v)

\* detail::runFieldValidators: all validators of the field pass.
runFieldValidators(fd, v) == \A validator \in fd.validators : Validate(validator, v)

\* field<&T::member>(name, codec, validators...)
field(name, codec, validators) ==
    [name |-> name, codec |-> codec, validators |-> validators]

\* etherdream_schema.hpp: DacStatus{}, statusRules, dacStatusFields.
DacStatus ==
    [protocol |-> 0, lightEngineState |-> 0, playbackState |-> 0,
     source |-> 0, lightEngineFlags |-> 0, playbackFlags |-> 0,
     sourceFlags |-> 0, bufferFullness |-> 0, pointRate |-> 0,
     pointCount |-> 0]

statusRules(s) ==
    /\ ~(s.protocol # 0 /\ s.protocol # 1)
    /\ ~(s.playbackState = Playing /\ s.pointRate = 0)

dacStatusFields ==
    << field("protocol", "BeU8", {"NonZero"}),
       field("lightEngineState", "BeU8", {"LE_Range"}),
       field("playbackState", "BeU8", {"PB_Range"}),
       field("source", "BeU8", {"SRC_Range"}),
       field("lightEngineFlags", "BeU16", {}),
       field("playbackFlags", "BeU16", {}),
       field("sourceFlags", "BeU16", {}),
       field("bufferFullness", "BeU16", {}),
       field("pointRate", "BeU32", {}),
       field("pointCount", "BeU32", {}) >>

\* decode(): the fold over the fields from field k on: read, validate the
\* raw value, assign; the first failure ends it.
RECURSIVE DecodeFields(_, _, _, _)
DecodeFields(fields, k, s, obj) ==
    IF k > Len(fields) THEN [ok |-> TRUE, obj |-> obj]
    ELSE LET fd == fields[k]
             raw == CodecRead(fd.codec, s)
         IN  IF ~raw.ok THEN [ok |-> FALSE, obj |-> obj]
             ELSE IF ~runFieldValidators(fd, raw.value)
                  THEN [ok |-> FALSE, obj |-> obj]
                  ELSE DecodeFields(fields, k + 1, raw.rest,
                                    [obj EXCEPT ![fd.name] = raw.value])

\* decode(dacStatusSchema, bytes): a status, or an error and no status.
schemaDecode(bytes) ==
    LET got == DecodeFields(dacStatusFields, 1, bytes, DacStatus)
    IN  IF ~got.ok THEN [ok |-> FALSE, obj |-> DacStatus]
        ELSE IF ~statusRules(got.obj) THEN [ok |-> FALSE, obj |-> DacStatus]
             ELSE [ok |-> TRUE, obj |-> got.obj]

\* encode(): the fold over the fields: validate the member, write it.
RECURSIVE EncodeFields(_, _, _, _)
EncodeFields(fields, k, obj, out) ==
    IF k > Len(fields) THEN [ok |-> TRUE, bytes |-> out]
    ELSE LET fd == fields[k]
             v == obj[fd.name]
         IN  IF ~runFieldValidators(fd, v) THEN [ok |-> FALSE, bytes |-> <<>>]
             ELSE EncodeFields(fields, k + 1, obj,
                               out \o CodecWrite(fd.codec, v))

\* encode(dacStatusSchema, obj): the object rules first, then the fields.
schemaEncode(obj) ==
    IF ~statusRules(obj) THEN [ok |-> FALSE, bytes |-> <<>>]
    ELSE EncodeFields(dacStatusFields, 1, obj, <<>>)

\* The status packets the schema decoder is given: protocol 0, 1 and 7, state
\* and source bytes inside and outside their ranges, point rate 0 and 30000;
\* lightEngineFlags 3, bufferFullness 1024, pointCount 123456.
StatusBytes ==
    { <<protocol, les, ps, source, 0, 3, 0, 0, 0, 0, 4, 0, 0, 0, rate[1],
        rate[2], 0, 1, 226, 64>> :
        protocol \in {0, 1, 7}, les \in {0, 3, 4}, ps \in {1, 2, 255},
        source \in {0, 2, 3}, rate \in {<<0, 0>>, <<117, 48>>} }

\* The views made of them: the packet, a prefix of it, or with a byte more.
StatusViews ==
    UNION { {SubSeq(raw, 1, 0), SubSeq(raw, 1, 19), raw, Append(raw, 0)} :
            raw \in StatusBytes }

NoStatusDecode == [called |-> FALSE, bytes |-> <<>>, ok |-> FALSE,
                   obj |-> DacStatus]
NoRoundTrip ==
    [called |-> FALSE, encodeOk |-> FALSE, bytes |-> <<>>, ok |-> FALSE,
     obj |-> DacStatus]

\* decode(dacStatusSchema, view) is called.
AppDecodeStatus ==
    /\ \E view \in StatusViews :
          LET got == schemaDecode(view)
          IN  decoded' = [called |-> TRUE, bytes |-> view, ok |-> got.ok,
                          obj |-> got.obj]
    /\ roundTrip' = NoRoundTrip
    /\ UNCHANGED <<threadVars, workerVars, netVars, appVars, latencyMillis,
                   lastLatency, lastCall, refill, codecVars, ackResponse, lastDecode>>

\* The status just decoded is encoded, and the bytes are decoded again.
AppRoundTrip ==
    /\ decoded.called /\ decoded.ok
    /\ LET enc == schemaEncode(decoded.obj)
           got == IF enc.ok THEN schemaDecode(enc.bytes)
                  ELSE [ok |-> FALSE, obj |-> DacStatus]
       IN  roundTrip' = [called |-> TRUE, encodeOk |-> enc.ok,
                         bytes |-> enc.bytes, ok |-> got.ok, obj |-> got.obj]
    /\ UNCHANGED <<threadVars, workerVars, netVars, appVars, latencyMillis,
                   lastLatency, lastCall, refill, codecVars, ackResponse, lastDecode,
                   decoded>>

\* ----------------------------- LaserDeviceBase: calls of the application
\* No setLatency call yet; no requestPoints call yet.
NeverSet == [set |-> FALSE, value |-> 0]
NotCalled ==
    [called |-> FALSE, hadCallback |-> FALSE, ok |-> FALSE, invoked |-> 0,
     before |-> 0, produced |-> 0]

\* setLatency(): values below 1 ms are stored as 1.
setLatencyUnclamped(latencyMillisValue) == latencyMillisValue
setLatency(latencyMillisValue) ==
    IF latencyMillisValue < 1 THEN 1 ELSE latencyMillisValue

getLatency == latencyMillis

\* The values the application passes to setLatency.
LatencyInputs == {-3, 0, 1, 2, 50, 1000}

AppSetLatency ==
    /\ ~crashed
    /\ \E v \in LatencyInputs :
          /\ latencyMillis' = setLatency(v)
          /\ lastLatency' = [set |-> TRUE, value |-> v]
    /\ UNCHANGED <<threadVars, workerVars, netVars, appVars, lastCall,
                   refill, codecVars, decodeVars>>

\* The requests the application makes: a minimum, and a maximum (0: none).
RequestMinimums == {0, 10}
RequestMaximums == {0, 12}

\* requestPoints() called by the application on a device whose worker is
\* not running.  A failed assert() aborts the process in a build that keeps
\* assertions and is skipped in one that does not.
AppRequestPoints ==
    /\ ~crashed /\ ctl.pc = "idle" /\ wpc = "off"
    /\ \E min \in RequestMinimums, max \in RequestMaximums :
         \E n \in Produced(min, max) :
          LET got == requestPoints(callbackSet, pointsToSend, n) IN
          /\ got.pointsToSend <= MaxBuffered
          /\ \/ /\ pointsToSend' = got.pointsToSend
                /\ lastCall' = [called |-> TRUE, hadCallback |-> callbackSet,
                                ok |-> got.ok, invoked |-> got.invoked,
                                before |-> pointsToSend,
                                produced |-> got.invoked * n]
                /\ UNCHANGED crashed
             \/ /\ callbackSet
                /\ ~AssertsHold(Fill(min, max, n))
                /\ crashed' = TRUE
                /\ UNCHANGED <<pointsToSend, lastCall>>
    /\ UNCHANGED <<running, workerJoinable, joins, extraWorker, wpc, wio,
                   failureEncountered, idlePollCounter, sentFrame,
                   lastKnownStatus, rateChangePending, wres, fill, netVars,
                   appVars, latencyMillis, lastLatency, refill,
                   codecVars, decodeVars>>

\* ------------------- EtherDreamDevice: the refill and the sleep of a status
ETHERDREAM_MIN_SLEEP == 1
ETHERDREAM_MAX_SLEEP == 50

\* computeSleepDuration(): milliseconds.  ceil(pointsNeeded * 1000 / rate),
\* clamped to [ETHERDREAM_MIN_SLEEP, ETHERDREAM_MAX_SLEEP].
computeSleepDuration(status, bufferCapacity, minPacketPoints) ==
    IF status.pointRate = 0 THEN ETHERDREAM_MAX_SLEEP
    ELSE LET bufferFree == IF bufferCapacity > status.bufferFullness
                           THEN bufferCapacity - status.bufferFullness
                           ELSE 0
             pointsNeeded == minPacketPoints - bufferFree
             ms == (pointsNeeded * 1000 + Max(status.pointRate, 1) - 1)
                       \div Max(status.pointRate, 1)
         IN  IF bufferFree >= minPacketPoints THEN ETHERDREAM_MIN_SLEEP
             ELSE Min(Max(ms, ETHERDREAM_MIN_SLEEP), ETHERDREAM_MAX_SLEEP)

\* How long ago, in milliseconds, the status of an iteration was received.
ElapsedInputs == {0, 5, 100}

NoRefill ==
    [called |-> FALSE, status |-> DefaultStatus, latency |-> 0,
     elapsed |-> 0, bufferFullness |-> 0, minimumPointsRequired |-> 0,
     maximumPointsRequired |-> 0, asked |-> FALSE, sleep |-> 0]

\* One iteration of run() on a status received `elapsed` ms ago: the fullness
\* it reads (the one of the status; run() reads no clock for it), the
\* PointFillRequest of step 4, issued when desiredPoints > 0, and the sleep
\* of step 6.
AppRefill ==
    /\ ~crashed
    /\ \E status \in Statuses, elapsed \in ElapsedInputs :
          refill' =
            [called |-> TRUE, status |-> status, latency |-> latencyMillis,
             elapsed |-> elapsed,
             bufferFullness |-> status.bufferFullness,
             minimumPointsRequired |-> DesiredPoints(status),
             maximumPointsRequired |-> BufferFree(status),
             asked |-> DesiredPoints(status) > 0,
             sleep |-> computeSleepDuration(status,
                                            ETHERDREAM_BUFFER_CAPACITY,
                                            ETHERDREAM_MIN_PACKET_POINTS)]
    /\ UNCHANGED <<threadVars, workerVars, netVars, appVars, latencyMillis,
                   lastLatency, lastCall, codecVars, decodeVars>>


\* ------------------------------------------------------------ specification
\* After construction: not running, no worker, an unopened socket, default
\* status, no callback.
Init ==
    /\ running = FALSE /\ workerJoinable = FALSE /\ joins = 0
    /\ extraWorker = FALSE /\ crashed = FALSE
    /\ wpc = "off" /\ wio = "-"
    /\ failureEncountered = FALSE /\ idlePollCounter = 0 /\ sentFrame = FALSE
    /\ lastKnownStatus = DefaultStatus /\ rateChangePending = FALSE
    /\ callbackSet = FALSE
    /\ sock = "closed" /\ unread = 0 /\ rememberedAddress = FALSE
    /\ cur = NoCall /\ stale = <<>>
    /\ ctl = Thread("idle", "-") /\ aux = "idle"
    /\ wres = NoRes
    /\ fill = NoFill
    /\ pointsToSend = 0
    /\ latencyMillis = DefaultLatencyMillis
    /\ lastLatency = NeverSet
    /\ lastCall = NotCalled
    /\ frame = NoFrame
    /\ encoded = NotEncoded
    /\ ackResponse = NewResponse
    /\ lastDecode = NoDecode
    /\ decoded = NoStatusDecode
    /\ roundTrip = NoRoundTrip
    /\ refill = NoRefill

Worker == WEntry \/ WReturn \/ WLoop \/ WPost \/ WBail

IoThread ==
    \E i \in CallIds : RunOpHandler(i) \/ RunTimerHandler(i) \/ RunTimerCancel(i)

\* Deadlines pass.
Clock == \E i \in CallIds : TimerExpire(i)

\* The peer answers, or the transport fails.
Network == \E i \in CallIds, code \in {"ok", "io_error"} : NetComplete(i, code)

Environment == Network \/ Clock

Control ==
    \/ CtlStart \/ CtlStartSet \/ CtlStartSpawn
    \/ CtlStop \/ CtlStopJoin
    \/ CtlClose \/ CtlSetCallback
    \/ CtlConnect \/ CtlConnectReturn

Second == AuxStart \/ AuxStartSet \/ AuxStartSpawn

Next == Worker \/ IoThread \/ Environment \/ Control

NextConc == Next \/ Second

Spec == Init /\ [][Next]_vars

SpecConc == Init /\ [][NextConc]_vars

\* The device with an Ether Dream DAC as its peer.
DacNetwork ==
    \E i \in CallIds, code \in {"ok", "io_error"} : DacComplete(i, code)

NextDac == Worker \/ IoThread \/ DacNetwork \/ Clock \/ Control

SpecDac == Init /\ [][NextDac]_vars

\* Scheduling: the worker thread and the io_context thread keep running,
\* every armed deadline eventually passes, and a join returns once the
\* joined thread has ended.  The network owes nothing, and the application
\* need not call anything.
Fairness ==
    /\ WF_vars(Worker)
    /\ WF_vars(IoThread)
    /\ WF_vars(Clock)
    /\ WF_vars(CtlStopJoin)

FairSpec == Spec /\ Fairness

\* The application drives the base class of a device it has not started.
NextBase == CtlSetCallback \/ AppSetLatency \/ AppRequestPoints

SpecBase == Init /\ [][NextBase]_vars

\* A program that uses a TcpClient directly, with timeouts of its choice.
NextTcp ==
    \/ TcpConnectCall \/ TcpReadCall \/ TcpReturn \/ TcpCloseCall
    \/ IoThread \/ Environment

SpecTcp == Init /\ [][NextTcp]_vars

\* The encoders and frame builders applied to sample inputs.
NextCodec == AppEncode \/ AppBuildFrame

SpecCodec == Init /\ [][NextCodec]_vars

\* EtherDreamResponse::decode applied to sample buffers.
NextAck == AppDecodeAck

SpecAck == Init /\ [][NextAck]_vars

\* The schema decoder and encoder applied to sample status packets.
NextSchema == AppDecodeStatus \/ AppRoundTrip

SpecSchema == Init /\ [][NextSchema]_vars

\* The refill and sleep decisions of run() on sample statuses, under the
\* latencies the application sets.
NextRefill == AppSetLatency \/ AppRefill

SpecRefill == Init /\ [][NextRefill]_vars

\* ------------------------------------------------------------------ claims
\* A with_deadline call returns to its caller.
Returns == WReturn \/ CtlConnectReturn

\* The State of the call in progress agrees with the handler that ran first.
OutcomeOfFirstHandler(c) ==
    /\ c.first = "none" => ~c.done /\ c.ec = "would_block"
    /\ c.first = "op" => c.done /\ c.ec = c.opEc /\ c.ec # "would_block"
    /\ c.first = "timer" => c.done /\ c.ec = "timed_out"

\* C1: for every with_deadline call and every order of its two handlers, the
\* outcome is written once, by the handler that runs first: the operation's
\* error code if its completion handler was first, timed_out if the timer's
\* was; the later handler does not overwrite it; and the call returns only
\* after an outcome is recorded, never the initial would_block.
C1_OutcomeWrittenOnce ==
    /\ [](cur.kind # "none" => OutcomeOfFirstHandler(cur))
    /\ [][cur.done /\ ~Returns => cur'.done /\ cur'.ec = cur.ec]_vars
    /\ [][Returns => cur.done /\ cur.first # "none" /\ cur.ec # "would_block"]_vars

\* C1 witness: the timer's handler was first and recorded timed_out, the
\* cancelled operation's handler has run after it, and the caller has not
\* yet returned.
C1_Witness ==
    /\ cur.kind = "read" /\ cur.done /\ cur.first = "timer"
    /\ cur.op = "handled" /\ cur.timer = "handled" /\ cur.ec = "timed_out"

C3_CloseIdempotent ==
    /\ [](ctl.last # "-" => ~IsConnected /\ ~rememberedAddress)
    /\ [][CtlClose /\ ctl.last # "-" =>
            UNCHANGED <<threadVars, workerVars, netVars, aux, callbackSet,
                        rememberedAddress>>]_vars

\* C3 witness: two consecutive close() calls on a device whose connection
\* the worker had already closed after a failure.
C3_Witness ==
    /\ ctl.last = "close_again" /\ wpc = "exited" /\ failureEncountered
    /\ ~IsConnected /\ ~rememberedAddress

\* The worker has just finished a command of the streaming loop in failure.
LoopCommandFailed == wres' # wres /\ wres'.stage \in LoopStages /\ ~wres'.ok

\* C4: in the main loop every failed write, read or ack check, of the
\* prepare, data, begin, rate and status-poll commands alike, clears
\* running, sets the failure flag and leaves the loop without writing
\* another command.
C4_LoopFailureExits ==
    [][LoopCommandFailed =>
          /\ ~running' /\ failureEncountered'
          /\ wpc' = "post" /\ cur'.kind = "none"]_vars

\* C5: whenever the worker exits after an error, a failure of the handshake
\* or of the setup commands included, the TCP connection is closed.
C5_ErrorExitClosesConnection ==
    [][wpc # "exited" /\ wpc' = "exited" /\ failureEncountered =>
          sock' = "closed"]_vars

\* C6: during streaming an ack that does not match the command sent does
\* not stop the worker, and after a status reporting e-stop or underflow no
\* data frame is written before clear and prepare have been.
C6_ClearBeforeData ==
    /\ [][wres' # wres /\ wres'.stage \in LoopStages
            /\ wres'.err = "protocol_error" =>
              ~failureEncountered' /\ wpc' \in LoopStages]_vars
    /\ [](cur.kind = "write" /\ cur.cmd = "d" =>
              ~IsEstop(lastKnownStatus) /\ ~Underflow(lastKnownStatus))

\* C7: waitForResponse(c) yields protocol_error whenever the ack's response
\* code is not 'a' or its echoed command is not c, and yields the ack only
\* when the response code is 'a' and the echoed command is c.
C7_AckCheck ==
    wres.response # "-" =>
        /\ wres.ok <=> (wres.response = "a" /\ wres.command = wres.expected)
        /\ wres.ok => wres.err = "none"
        /\ ~wres.ok => wres.err = "protocol_error"

\* C7 witness: an ack that accepts, but echoes another command than the one
\* sent, was turned into protocol_error.
C7_Witness ==
    /\ wres.response = "a" /\ wres.command # wres.expected
    /\ ~wres.ok /\ wres.err = "protocol_error"

\* The TCP operations whose completion handler has not run yet.
Outstanding == {i \in CallIds : Call(i).op # "handled"}

\* C8: at most one TCP operation is outstanding on the socket; none is
\* started while an earlier one, timed out and cancelled or not, has not
\* completed its handler.
C8_OneOutstandingOperation == Cardinality(Outstanding) <= 1

\* The worker threads that have been launched and have not ended.
LiveWorkers ==
    (IF WorkerAlive THEN 1 ELSE 0) + (IF extraWorker THEN 1 ELSE 0)

\* C9: a device has at most one live worker thread, also when two threads
\* call start() at the same time.
C9_AtMostOneWorker == LiveWorkers <= 1

\* C10: stop() cancels no read or write in flight; with stop() waiting, the
\* worker leaves at the next loop head, and unless a failure is handled the
\* connection stays open.
C10_StopLeavesConnection ==
    /\ [][CtlStop => UNCHANGED <<sock, cur, stale>>]_vars
    /\ [][ctl.pc = "stop_join" /\ WLoop => wpc' = "post"]_vars
    /\ [][ctl.pc = "stop_join" /\ sock = "connected" /\ ~failureEncountered'
            => sock' = "connected"]_vars

\* C10 witness: stop() is waiting for a worker that was streaming, took no
\* failure and has left run(); the connection is still up.
C10_Witness ==
    /\ ctl.pc = "stop_join" /\ wpc = "exited" /\ ~failureEncountered
    /\ sock = "connected" /\ rateChangePending

\* The worker is writing a data frame.
WritingData == cur.kind = "write" /\ cur.cmd = "d"

\* The first, second, middle and last point of a frame of n points.
SampleIndices(n) == {idx \in {0, 1, n \div 2, n - 1} : 0 <= idx /\ idx < n}

\* C11: while an acknowledged rate change awaits a data frame, the data
\* frame written has control word 0x8000 on its first point and 0 on every
\* other point; a data frame written while none is pending has control word
\* 0 on all its points.
C11_RateChangeBit ==
    WritingData =>
        \A idx \in SampleIndices(cur.points) :
            FrameControl(idx) =
                IF rateChangePending /\ idx = 0 THEN 32768 ELSE 0

\* C11 witness: a frame of several points is being written while a rate
\* change is pending.
C11_Witness ==
    /\ WritingData /\ rateChangePending /\ cur.points > 1
    /\ FrameControl(0) = 32768 /\ FrameControl(1) = 0

\* C12: every PointFillRequest of the worker has its minimum at or below its
\* maximum whenever the maximum is positive.
C12_RequestMinBelowMax ==
    fill.asked /\ fill.max > 0 => fill.min <= fill.max

\* The free space is below the minimum packet size: the request is clamped.
C12_Witness ==
    /\ fill.asked
    /\ fill.max > 0
    /\ fill.max < ETHERDREAM_MIN_PACKET_POINTS
    /\ fill.min = fill.max

\* C13: a data frame carries between the minimum and the maximum of the
\* request that produced it, the maximum being the free FIFO space computed
\* from the latest status; the frame never exceeds that free space.
C13_FrameWithinRequest ==
    WritingData =>
        /\ fill.asked
        /\ fill.max = ETHERDREAM_BUFFER_CAPACITY - lastKnownStatus.bufferFullness
        /\ fill.min <= cur.points
        /\ cur.points <= fill.max
        /\ cur.points = pointsToSend

\* The generator produced more than the maximum and the frame was capped.
C13_Witness ==
    /\ WritingData
    /\ fill.produced > fill.max
    /\ cur.points = fill.max

\* C14: a batch below the requested minimum is underfilled: no data frame is
\* written for it and the worker leaves the loop through handleFailure.
C14_UnderfilledNotSent ==
    fill.asked /\ fill.produced < fill.min =>
        /\ ~WritingData
        /\ wpc = "post"
        /\ failureEncountered

\* The callback ran and appended one point less than the minimum.
C14_Witness ==
    /\ fill.asked
    /\ callbackSet
    /\ fill.produced > 0
    /\ fill.produced < fill.min
    /\ wpc = "post"
\* C15: requestPoints returns false, invokes nothing and leaves the outbound
\* buffer alone when no callback is installed; otherwise it invokes the
\* callback once and returns true, and the outbound buffer then holds exactly
\* the points of that one call.
C15_RequestPointsReplacesBuffer ==
    lastCall.called =>
        IF ~lastCall.hadCallback
        THEN /\ ~lastCall.ok
             /\ lastCall.invoked = 0
             /\ pointsToSend = lastCall.before
        ELSE /\ lastCall.ok
             /\ lastCall.invoked = 1
             /\ pointsToSend = lastCall.produced
\* C18: getLatency returns max(1, v) for the last value v passed to
\* setLatency, 50 when none was passed; the stored latency is never below 1.
C18_LatencyClamped ==
    /\ getLatency = IF lastLatency.set THEN Max(1, lastLatency.value) ELSE 50
    /\ latencyMillis >= 1

\* The last call passed a value below 1 and 1 is what is stored.
C18_Witness ==
    /\ lastLatency.set
    /\ lastLatency.value < 1
    /\ getLatency = 1
\* C19: a data frame for n points is 3 + 18 n bytes long: the opcode 'd', a
\* 16-bit count equal to n, then n blocks of nine 16-bit fields.
C19_FrameLayout ==
    frame.encoder # "-" =>
        /\ FrameSize(frame.fields) = 3 + 18 * frame.points
        /\ Len(frame.fields) = 2 + 9 * frame.points
        /\ frame.fields[1] = Field(1, DataOpcode)
        /\ frame.fields[2] = Field(2, frame.points)
        /\ \A k \in 3..Len(frame.fields) : frame.fields[k].bytes = 2

\* The layout holds of the frames EtherDreamCommand builds.
CommandFrameLayout ==
    frame.encoder = "command" =>
        /\ FrameSize(frame.fields) = 3 + 18 * frame.points
        /\ Len(frame.fields) = 2 + 9 * frame.points
        /\ frame.fields[1] = Field(1, DataOpcode)
        /\ frame.fields[2] = Field(2, frame.points)

\* The signed reading of a 16-bit word.
AsSigned(word) == ToInt16(word)

\* C20: encoded coordinates lie in [-32768, 32767] and encoded channels in
\* [0, 65535]; a value beyond a bound encodes to the word of that bound.
C20_EncodedWithinRange ==
    /\ encoded.kind = "coordinate" =>
          /\ AsSigned(encoded.word) >= -32768
          /\ AsSigned(encoded.word) <= 32767
          /\ ~encoded.value.nan /\ encoded.value.milli > 1000 =>
                encoded.word \in CoordinateWords(encoded.encoder, Float(1000))
          /\ ~encoded.value.nan /\ encoded.value.milli < -1000 =>
                encoded.word \in CoordinateWords(encoded.encoder, Float(-1000))
    /\ encoded.kind = "channel" =>
          /\ encoded.word >= 0
          /\ encoded.word <= 65535
          /\ ~encoded.value.nan /\ encoded.value.milli > 1000 =>
                encoded.word \in ChannelWords(encoded.encoder, Float(1000))
          /\ ~encoded.value.nan /\ encoded.value.milli < 0 =>
                encoded.word \in ChannelWords(encoded.encoder, Float(0))

\* A coordinate below -1 went through EtherDreamCommand's encoder.
C20_Witness ==
    /\ encoded.encoder = "command"
    /\ encoded.kind = "coordinate"
    /\ encoded.value.milli < -1000
    /\ encoded.word = -32767
\* C16: over connect / close cycles, a connect whose peer accepts before the
\* deadline succeeds and leaves the device connected, close leaves it not
\* connected, and each connect starts on a fresh socket with nothing of the
\* socket before it outstanding.
C16_ReconnectCycles ==
    /\ [][CtlConnectReturn /\ cur.first = "op" /\ cur.opEc = "ok" =>
            /\ cur.ec = "ok"
            /\ rememberedAddress'
            /\ sock' = "connected"
            /\ sockOpen']_vars
    /\ [][CtlClose => sock' = "closed" /\ ~rememberedAddress']_vars
    /\ [][CtlConnect =>
            /\ sock' = "open"
            /\ \A i \in 1..Len(stale') : stale'[i].op # "pending"]_vars

\* A connect has succeeded while a handler of an earlier connect of the same
\* device was still waiting on the executor.
C16_Witness ==
    /\ wpc = "off"
    /\ ctl.pc = "idle"
    /\ sock = "connected"
    /\ rememberedAddress
    /\ Len(stale) > 0
\* C17: an operation started with a timeout of zero, or a negative one, whose
\* timer handler is served while the operation is still in flight, returns
\* timed_out, and the handler's cancel() leaves the operation cancelled.
C17_ZeroTimeoutTimesOut ==
    /\ [](cur.immediate /\ cur.first = "timer" =>
            /\ cur.done
            /\ cur.ec = "timed_out"
            /\ cur.timer = "handled" => cur.op # "pending")
    /\ [][cur.immediate /\ cur.op = "pending" /\ RunTimerHandler(0) =>
            cur'.first = "timer"]_vars
    /\ [][TcpReturn /\ cur.immediate /\ cur.first = "timer" =>
            cur.ec = "timed_out"]_vars

\* A call with a negative or zero timeout has timed out and its operation
\* has been aborted by the timer handler's cancel().
C17_Witness ==
    /\ cur.immediate
    /\ cur.first = "timer"
    /\ cur.timer = "handled"
    /\ cur.op = "operation_aborted"
\* C21: decoding a 22-byte ack whose light engine state byte or playback
\* state byte is none of 0..3 fails, and waitForResponse gives protocol_error
\* for it instead of a status.
C21_UnknownStateRejected ==
    /\ lastDecode.called
    /\ ~lastDecode.null
    /\ lastDecode.size = 22
    /\ \/ lastDecode.lightEngineState \notin 0..3
       \/ lastDecode.playbackState \notin 0..3
    => /\ ~lastDecode.ok
       /\ lastDecode.error = "protocol_error"
\* C22: decode of a null buffer, or of fewer than 22 bytes, fails and leaves
\* the response code, the echoed command and the status of the object as
\* they were.
C22_ShortInputLeavesResponse ==
    lastDecode.called /\ (lastDecode.null \/ lastDecode.size < 22) =>
        /\ ~lastDecode.ok
        /\ ackResponse = lastDecode.before

\* An object that held a decoded ack was given 21 bytes.
C22_Witness ==
    /\ lastDecode.called
    /\ ~lastDecode.null
    /\ lastDecode.size = 21
    /\ ~lastDecode.ok
    /\ lastDecode.before # NewResponse
    /\ ackResponse = lastDecode.before
\* The first 20 bytes of a view describe a status the schema admits: state
\* and source bytes in range, protocol version 1, not Playing at rate 0.
Admissible(bytes) ==
    /\ Len(bytes) >= 20
    /\ bytes[1] = 1
    /\ bytes[2] \in 0..3
    /\ bytes[3] \in 0..3
    /\ bytes[4] \in 0..2
    /\ ~(bytes[3] = 2 /\ bytes[13] = 0 /\ bytes[14] = 0 /\ bytes[15] = 0
            /\ bytes[16] = 0)

C24_SchemaRoundTrip ==
    roundTrip.called =>
        /\ roundTrip.encodeOk
        /\ Len(roundTrip.bytes) = 20
        /\ roundTrip.ok
        /\ roundTrip.obj = decoded.obj

\* A decoded status with multi-byte fields that are not palindromes went
\* through encode and decode.
C24_Witness ==
    /\ roundTrip.called
    /\ roundTrip.ok
    /\ roundTrip.obj.bufferFullness = 1024
    /\ roundTrip.obj.pointCount = 123456
    /\ roundTrip.bytes = SubSeq(decoded.bytes, 1, 20)
\* C25: a worker started on a connected device first reads one ack for '?'
\* and writes nothing; only when that read fails does it write a ping '?'
\* and read its reply; when the ping fails too it clears running and leaves
\* run() without writing prepare, data or begin.
C25_Handshake ==
    /\ [](wpc = "hs" => cur.kind = "read" /\ cur.cmd = "?")
    /\ [][wpc = "entry" /\ wpc' # "entry" /\ sockOpen =>
            wpc' = "hs" /\ cur'.kind = "read" /\ cur'.cmd = "?"]_vars
    /\ [][wpc = "hs" /\ wpc' # "hs" =>
            IF wres'.ok
            THEN wpc' # "hs_ping" /\ ~(cur'.kind = "write" /\ cur'.cmd = "?")
            ELSE wpc' = "hs_ping" /\ cur'.kind = "write" /\ cur'.cmd = "?"]_vars
    /\ [](wpc = "hs_ping" => cur.kind \in {"read", "write"} /\ cur.cmd = "?")
    /\ [][wpc = "hs_ping" /\ wpc' # "hs_ping" /\ ~wres'.ok =>
            wpc' = "bail" /\ ~running' /\ cur'.kind = "none"]_vars
    /\ [][wpc = "bail" =>
            wpc' \in {"bail", "exited"} /\ cur'.kind # "write"]_vars

\* The ack sent on connection did not come, the ping was written and failed,
\* and the worker is leaving run().
C25_Witness ==
    /\ wpc = "bail"
    /\ wres.stage = "hs_ping"
    /\ ~wres.ok
    /\ ~running
    /\ failureEncountered
    /\ cur.kind = "none"
\* The worker has just had a 22-byte reply that parsed and was refused: its
\* response code is not 'a', or it echoes another command than the one sent.
ReplyRefused == wres' # wres /\ wres'.response # "-" /\ ~wres'.ok

\* C26: when a 22-byte reply parses and is refused for its response code or
\* its echoed command, the worker's latest status is the one that reply
\* carried once the call has failed.
C26_StatusFromRefusedReply ==
    [][ReplyRefused =>
          /\ wres'.err = "protocol_error"
          /\ lastKnownStatus' = wres'.status]_vars
\* The worker is writing the command `cmd`.
Writing(cmd) == cur.kind = "write" /\ cur.cmd = cmd

\* An e-stop or an underflow is reported: the DAC wants a clear first.
ClearRequired(status) == IsEstop(status) \/ Underflow(status)

\* C27: the worker writes 'prepare' only when the latest status has the light
\* engine Ready and playback Idle, and no clear is required (no e-stop, no
\* underflow flag).
C27_PrepareOnlyWhenReadyIdle ==
    Writing("p") =>
        /\ lastKnownStatus.lightEngineState = Ready
        /\ lastKnownStatus.playbackState = Idle
        /\ ~ClearRequired(lastKnownStatus)
\* C28: the worker writes 'begin' only when the latest status is Prepared with
\* at least 150 points in the FIFO and no clear is required; never while the
\* status is Idle or Paused or the FIFO holds fewer than 150 points.
C28_BeginOnlyWhenPreparedAndFilled ==
    Writing("b") =>
        /\ lastKnownStatus.playbackState = Prepared
        /\ lastKnownStatus.bufferFullness >= ETHERDREAM_MIN_PACKET_POINTS
        /\ ~ClearRequired(lastKnownStatus)
\* C30: a data frame is written only in an iteration whose fill request asks
\* for at least 150 points, and no data frame has fewer than 150 points.
C30_NoSmallFrames ==
    WritingData =>
        /\ fill.asked
        /\ fill.min >= ETHERDREAM_MIN_PACKET_POINTS
        /\ cur.points >= ETHERDREAM_MIN_PACKET_POINTS
\* C29: rateChangePending becomes true only when a 'q' command has been
\* acknowledged; it becomes false only when a data frame that carried the
\* rate-change bit has been written and acknowledged; when the write or the
\* ack of that frame fails, the flag stays set.
C29_RateChangePendingLifecycle ==
    /\ [][~rateChangePending /\ rateChangePending' =>
            /\ wpc = "rate" /\ wio = "r" /\ cur.cmd = "q"
            /\ wres'.stage = "rate" /\ wres'.ok]_vars
    /\ [](wpc = "data" /\ WritingData => cur.rateBit = rateChangePending)
    /\ [][wpc = "data" /\ wpc' = "data" =>
            rateChangePending' = rateChangePending]_vars
    /\ [][rateChangePending /\ ~rateChangePending' =>
            /\ wpc = "data" /\ wio = "r" /\ cur.cmd = "d"
            /\ wres'.stage = "data" /\ wres'.ok]_vars
    /\ [][rateChangePending /\ wres' # wres /\ wres'.stage = "data"
            /\ ~wres'.ok => rateChangePending']_vars

\* The frame that carried the rate-change bit was written, its ack did not
\* come in time, and the flag is still set.
C29_Witness ==
    /\ wpc = "post"
    /\ wres.stage = "data"
    /\ wres.err = "timed_out"
    /\ rateChangePending
    /\ failureEncountered

\* The fullness the refill aims at for a latency: the floor of 256 points
\* plus what plays during the latency, at most the FIFO capacity.
RequiredLevel(status, latency) ==
    Min(ETHERDREAM_BUFFER_CAPACITY,
        256 + (status.pointRate * latency) \div 1000)

\* C31: in an iteration whose status has the FIFO at or above the level
\* required for the configured latency, the fill request, if any, asks for a
\* minimum of 0 points and no data frame is written.
C31_NoFrameAtRequiredLevel ==
    lastKnownStatus.bufferFullness
            >= RequiredLevel(lastKnownStatus, latencyMillis) =>
        /\ fill.asked => fill.min = 0
        /\ ~WritingData
\* C32: while the latest status reports point rate 0, calculateMinimumPoints
\* gives 0 and no data frame is written; prepare and begin are still written.
C32_NoDataAtRateZero ==
    lastKnownStatus.pointRate = 0 =>
        /\ calculateMinimumPoints(lastKnownStatus, latencyMillis) = 0
        /\ ~WritingData
\* C40: no queue_rate_change 'q' is written while an acknowledged rate change
\* still awaits its data frame.
C40_OneRateChangePending == Writing("q") => ~rateChangePending
\* C38: whenever start() assigns the new worker thread, the handle of the
\* worker before it is not joinable any more: it was joined, or there was
\* none.
C38_StartFindsWorkerJoined ==
    [][CtlStartSpawn => ~workerJoinable]_vars
\* C33: for a status with point rate R and fullness F under latency L, the
\* fill request has maximum max(0, 1799 - F) and minimum
\* min(max(0, min(1799, 256 + R*L/1000) - F), max(0, 1799 - F)); for
\* R = 30000, F = 200, L = 50 the minimum is 1556.
C33_FillRequestFormula ==
    refill.called =>
        LET free == Max(0, 1799 - refill.status.bufferFullness)
            deficit == Max(0, RequiredLevel(refill.status, refill.latency)
                                  - refill.status.bufferFullness)
        IN  /\ refill.maximumPointsRequired = free
            /\ refill.minimumPointsRequired = Min(deficit, free)
            /\ (refill.status.pointRate = 30000
                    /\ refill.status.bufferFullness = 200
                    /\ refill.latency = 50) =>
                   refill.minimumPointsRequired = 1556
\* The fullness left of F points after `elapsed` ms of playing at rate R.
EstimatedFullness(status, elapsed) ==
    Min(1799, Max(0, status.bufferFullness
                         - (status.pointRate * elapsed) \div 1000))

\* C34: the fullness an iteration uses is the estimate: the reported fullness
\* less what has played since the status was received, kept within
\* [0, 1799]; it is below the reported fullness once time has passed on a
\* playing, non-empty FIFO.
C34_FullnessIsEstimate ==
    refill.called =>
        /\ refill.bufferFullness
               = EstimatedFullness(refill.status, refill.elapsed)
        /\ (refill.elapsed > 0 /\ refill.status.pointRate > 0
                /\ refill.status.bufferFullness > 0) =>
               refill.bufferFullness < refill.status.bufferFullness
\* The milliseconds `points` points take at `rate` points a second, rounded
\* down and rounded up.
PointsToMillis(points, rate) ==
    { (points * 1000) \div rate, (points * 1000 + rate - 1) \div rate }

\* C35: the sleep of an iteration is at most 5 ms, also at point rate 0; at
\* a positive rate R it is min(5 ms, the time min(150, max(0, F - R*L/1000))
\* points take at R), to the millisecond and not below the 1 ms floor.
C35_SleepFormula ==
    refill.called =>
        /\ refill.sleep <= 5
        /\ refill.status.pointRate > 0 =>
             LET R == refill.status.pointRate
                 minPointsInBuffer == (R * refill.latency) \div 1000
                 pointsToWait ==
                     Min(150, Max(0, refill.status.bufferFullness
                                         - minPointsInBuffer))
             IN  \E ms \in PointsToMillis(pointsToWait, R) :
                    refill.sleep \in {Min(5, ms), Max(1, Min(5, ms))}
\* The calls of with_deadline that have returned to their caller.
Returned == 1..Len(stale)

\* C36: once read_exact or write_all has returned, its operation is in
\* flight no more: an operation in flight still uses the caller's buffer,
\* and the completion handler of a read, which runs when the operation ends,
\* stores the byte count in a local of read_exact.
C36_NoOperationAfterReturn ==
    \A i \in Returned :
        stale[i].kind \in {"read", "write"} => stale[i].op # "pending"
\* C37: the cancel() of a timer handler hits only the operation it was armed
\* for: with_deadline has not returned when it runs, so it aborts no
\* operation that the caller started after the timed-out one.
C37_CancelHitsOwnOperation ==
    [][\A i \in Returned : RunTimerCancel(i) => cur'.op = cur.op]_vars
\* The worker has started writing a command that is not yet on the wire.
CommandStarted == wio = "w" /\ cur.kind = "write" /\ cur.op = "pending"

\* C39: when the worker starts writing a command, no ack is unread on the
\* connection; and the ack a read of the worker takes is the only one
\* unread, the reply to the command written last (or the ack sent on
\* connection).
C39_NoUnreadAckAtWrite ==
    /\ [](CommandStarted => unread = 0)
    /\ [][wio = "r" /\ DacComplete(0, "ok") => unread <= 1]_vars
====
